---- MODULE Spec2Model ----
(***************************************************************************)
(* AeroStream chat backend: the websocket room registry                    *)
(* (backend/ws_manager.py, ConnectionManager), the /ws/{room} endpoint and  *)
(* the /send_message route (backend/backend.py), and the message store      *)
(* (backend/messageService.py, backend/dbManager.py).                       *)
(*                                                                         *)
(* The server is one asyncio event loop: code between two awaits is one     *)
(* atomic step.  A step of a task below is the code from the return of one  *)
(* await up to the next await that can suspend (a socket send/receive, or   *)
(* acquiring the manager lock while another task holds it).                 *)
(***************************************************************************)
EXTENDS Integers, Sequences, FiniteSets, TLC

(* ------------------------------ bounds --------------------------------- *)
NumApi == 3        \* sockets whose owner calls ConnectionManager.connect
NumWs == 1         \* connections served by websocket_endpoint
NumHttp == 1       \* POST /send_message requests in progress at a time
MaxRequests == 1   \* POST /send_message requests in all
MaxClock == 1      \* CURRENT_TIMESTAMP takes the values 0..MaxClock
MaxRows == 3       \* rows of the messages table when callers of MessageService fill it
MaxInbound == 2    \* payloads a client sends after its first message

ApiSockets == 1..NumApi
WsSockets == (NumApi + 1)..(NumApi + NumWs)
Sockets == ApiSockets \cup WsSockets
\* a connection's task carries the number of its socket
HttpTasks == (NumApi + NumWs + 1)..(NumApi + NumWs + NumHttp)
ForceTask == NumApi + NumWs + NumHttp + 1   \* the caller of disconnect_user_from_all_rooms
Tasks == Sockets \cup HttpTasks \cup {ForceTask}
NoTask == 0        \* the lock is free

Users == {"alice", "bob"}
StoreRooms == {"r1", "r2"}            \* rows of the rooms table
Rooms == StoreRooms \cup {"nowhere"}  \* room names a client may put in the URL
Contents == {"hi", " "}               \* message texts a request may carry

\* Every connection belongs to one user and targets one room for its lifetime:
\* odd sockets are alice's, even sockets are bob's, API sockets target r1.
SockUser(s) == IF s % 2 = 1 THEN "alice" ELSE "bob"

VARIABLES
  active_rooms,      \* ConnectionManager.active_rooms: room -> set of sockets
  user_connections,  \* ConnectionManager.user_connections: room -> (username -> socket)
  socket_to_user,    \* ConnectionManager.socket_to_user: socket -> <<room, username>>
  lock,              \* ConnectionManager.lock: the task holding it, or NoTask
  alive,             \* per socket: the peer's transport still accepts sends
  closed,            \* sockets on which the server has called close()
  outbox,            \* per socket: the events sent to it, in order
  messages,          \* the messages table, in rowid order
  now,               \* the store's clock (CURRENT_TIMESTAMP)
  nreq,              \* the number of /send_message requests received so far
  inbound,           \* per websocket connection: the payloads its client has
                     \* sent after the first message, in arrival order
  pc,                \* per task: its position
  fr                 \* per task: its local variables

registry == <<active_rooms, user_connections, socket_to_user>>
vars == <<active_rooms, user_connections, socket_to_user, lock, alive, closed,
          outbox, messages, now, nreq, inbound, pc, fr>>

(* ------------------------- values and helpers -------------------------- *)
NoMsg == [id |-> 0, content |-> "", timestamp |-> 0, username |-> "", room |-> ""]
\* the request a new_message event was sent for: its author, its content and
\* whether its INSERT succeeded
NoSrc == [user |-> "", content |-> "", ins |-> "none"]
NoEvent == [type |-> "none", username |-> "", message |-> "", data |-> NoMsg,
            history |-> <<>>, by |-> NoTask, src |-> NoSrc]

\* an outbound JSON event: `data` is the row of a new_message, `history` the
\* list of rows of a message_history; `by` records the task whose call sent it
Event(type, username, data, by) ==
  [type |-> type, username |-> username, message |-> "", data |-> data,
   history |-> <<>>, by |-> by, src |-> NoSrc]

ErrorEvent(message, by) ==
  [type |-> "error", username |-> "", message |-> message, data |-> NoMsg,
   history |-> <<>>, by |-> by, src |-> NoSrc]

F0 == [room |-> "", user |-> "", content |-> "", ev |-> NoEvent,
       socks |-> <<>>, idx |-> 0, bad |-> <<>>, old |-> 0,
       probe |-> "none", result |-> "none", ins |-> "none", auth |-> "none",
       exclude_socket |-> 0, exclude_user |-> "", limit |-> 0, history |-> <<>>,
       count |-> 0, atcall |-> {}, left |-> FALSE]

Reg(ar, uc, s2u) == [ar |-> ar, uc |-> uc, s2u |-> s2u]
CurReg == Reg(active_rooms, user_connections, socket_to_user)

\* del d[k]
DictDel(d, k) == [x \in (DOMAIN d) \ {k} |-> d[x]]
\* d[k] = v
DictPut(d, k, v) == [x \in (DOMAIN d) \cup {k} |-> IF x = k THEN v ELSE d[x]]

Range(q) == {q[i] : i \in 1..Len(q)}

RECURSIVE RoomList(_)
\* the keys of a dict of rooms, as a list
RoomList(S) ==
  IF S = {} THEN <<>>
  ELSE LET r == CHOOSE x \in S : TRUE
       IN <<r>> \o RoomList(S \ {r})

RECURSIVE SetToSeq(_)
\* list(a set of sockets): the sockets in ascending order
SetToSeq(S) ==
  IF S = {} THEN <<>>
  ELSE LET m == CHOOSE x \in S : \A y \in S : x <= y
       IN <<m>> \o SetToSeq(S \ {m})

\* send_json on socket s returns normally (otherwise it raises)
SendOk(s) == alive[s] /\ s \notin closed

(* ----------------------- ConnectionManager.connect --------------------- *)
\* ws_manager.py 22-25: create the room's structures if absent
InitRoom(reg, room) ==
  [reg EXCEPT !.ar = IF room \in DOMAIN reg.ar THEN reg.ar ELSE DictPut(reg.ar, room, {}),
              !.uc = IF room \in DOMAIN reg.uc THEN reg.uc
                     ELSE DictPut(reg.uc, room, [u \in {} |-> 0])]

\* ws_manager.py 41-44 with the evicted socket left in active_rooms
EvictKeepsSocket(reg, room, username) ==
  LET old_ws == reg.uc[room][username]
  IN [reg EXCEPT !.s2u = IF old_ws \in DOMAIN reg.s2u THEN DictDel(reg.s2u, old_ws) ELSE reg.s2u,
                 !.uc = DictPut(reg.uc, room, DictDel(reg.uc[room], username))]

\* ws_manager.py 41-44: remove the old connection of username from the room
Evict(reg, room, username) ==
  LET old_ws == reg.uc[room][username]
  IN [reg EXCEPT !.ar = DictPut(reg.ar, room, reg.ar[room] \ {old_ws}),
                 !.s2u = IF old_ws \in DOMAIN reg.s2u THEN DictDel(reg.s2u, old_ws) ELSE reg.s2u,
                 !.uc = DictPut(reg.uc, room, DictDel(reg.uc[room], username))]

\* ws_manager.py 47-48, without the socket_to_user entry of 49
AddConnectionNoMapping(reg, room, username, ws) ==
  [reg EXCEPT !.ar = DictPut(reg.ar, room, reg.ar[room] \cup {ws}),
              !.uc = DictPut(reg.uc, room, DictPut(reg.uc[room], username, ws))]

\* ws_manager.py 47-49: add the new connection
AddConnection(reg, room, username, ws) ==
  [reg EXCEPT !.ar = DictPut(reg.ar, room, reg.ar[room] \cup {ws}),
              !.uc = DictPut(reg.uc, room, DictPut(reg.uc[room], username, ws)),
              !.s2u = DictPut(reg.s2u, ws, <<room, username>>)]

\* ws_manager.py 33-38: does the ConnectionRefusedError raised after a
\* successful ping leave connect?  The raise is inside the try whose
\* `except Exception` clause catches it, so it never does.
ProbeRefuses(sendOk) == FALSE

(* --------------------- ConnectionManager.disconnect -------------------- *)
\* ws_manager.py 56-76 with the room deleted from active_rooms whether or not
\* it is empty (58 without its test)
DisconnectRegDropsRoom(reg, room, ws) ==
  LET ar1 == IF room \in DOMAIN reg.ar THEN DictDel(reg.ar, room) ELSE reg.ar
      known == ws \in DOMAIN reg.s2u
      username == IF known THEN reg.s2u[ws][2] ELSE ""
      s2u1 == IF known THEN DictDel(reg.s2u, ws) ELSE reg.s2u
      match == /\ known
               /\ room \in DOMAIN reg.uc
               /\ username \in DOMAIN reg.uc[room]
               /\ reg.uc[room][username] = ws
      uc1 == IF match
             THEN LET rest == DictDel(reg.uc[room], username)
                  IN IF DOMAIN rest = {} THEN DictDel(reg.uc, room) ELSE DictPut(reg.uc, room, rest)
             ELSE reg.uc
  IN Reg(ar1, uc1, s2u1)

\* ws_manager.py 56-76 with the user's entry deleted by the connection's
\* user name, whatever socket the entry holds (62 and 69 without their tests)
DisconnectRegByName(reg, room, ws) ==
  LET ar1 == IF room \in DOMAIN reg.ar
             THEN LET rest == reg.ar[room] \ {ws}
                  IN IF rest = {} THEN DictDel(reg.ar, room) ELSE DictPut(reg.ar, room, rest)
             ELSE reg.ar
      username == SockUser(ws)
      s2u1 == IF ws \in DOMAIN reg.s2u THEN DictDel(reg.s2u, ws) ELSE reg.s2u
      match == /\ room \in DOMAIN reg.uc
               /\ username \in DOMAIN reg.uc[room]
      uc1 == IF match
             THEN LET rest == DictDel(reg.uc[room], username)
                  IN IF DOMAIN rest = {} THEN DictDel(reg.uc, room) ELSE DictPut(reg.uc, room, rest)
             ELSE reg.uc
  IN Reg(ar1, uc1, s2u1)

\* ws_manager.py 56-76 without the discard from active_rooms (57-59)
DisconnectRegKeepsMember(reg, room, ws) ==
  LET known == ws \in DOMAIN reg.s2u
      username == IF known THEN reg.s2u[ws][2] ELSE ""
      s2u1 == IF known THEN DictDel(reg.s2u, ws) ELSE reg.s2u
      match == /\ known
               /\ room \in DOMAIN reg.uc
               /\ username \in DOMAIN reg.uc[room]
               /\ reg.uc[room][username] = ws
      uc1 == IF match
             THEN LET rest == DictDel(reg.uc[room], username)
                  IN IF DOMAIN rest = {} THEN DictDel(reg.uc, room) ELSE DictPut(reg.uc, room, rest)
             ELSE reg.uc
  IN Reg(reg.ar, uc1, s2u1)

\* ws_manager.py 56-76
DisconnectReg(reg, room, ws) ==
  LET ar1 == IF room \in DOMAIN reg.ar
             THEN LET rest == reg.ar[room] \ {ws}
                  IN IF rest = {} THEN DictDel(reg.ar, room) ELSE DictPut(reg.ar, room, rest)
             ELSE reg.ar
      known == ws \in DOMAIN reg.s2u
      username == IF known THEN reg.s2u[ws][2] ELSE ""
      s2u1 == IF known THEN DictDel(reg.s2u, ws) ELSE reg.s2u
      match == /\ known
               /\ room \in DOMAIN reg.uc
               /\ username \in DOMAIN reg.uc[room]
               /\ reg.uc[room][username] = ws
      uc1 == IF match
             THEN LET rest == DictDel(reg.uc[room], username)
                  IN IF DOMAIN rest = {} THEN DictDel(reg.uc, room) ELSE DictPut(reg.uc, room, rest)
             ELSE reg.uc
  IN Reg(ar1, uc1, s2u1)

(* ---------------------- ConnectionManager.broadcast -------------------- *)
\* ws_manager.py 121-123 without the filter of 126-134
SnapshotNoExclusion(reg, room, exclude_socket, exclude_user) ==
  SetToSeq(IF room \in DOMAIN reg.ar THEN reg.ar[room] ELSE {})

\* ws_manager.py 121-134: the snapshot of the room's sockets taken under the
\* lock, minus the excluded socket and the sockets of the excluded user
\* (0 and "" stand for None)
Snapshot(reg, room, exclude_socket, exclude_user) ==
  LET sockets == SetToSeq(IF room \in DOMAIN reg.ar THEN reg.ar[room] ELSE {})
      Keep(s) == /\ ~(exclude_socket # 0 /\ s = exclude_socket)
                 /\ ~(/\ exclude_user # ""
                      /\ s \in DOMAIN reg.s2u
                      /\ reg.s2u[s][2] = exclude_user)
  IN SelectSeq(sockets, Keep)

\* ws_manager.py 159-166 for one bad socket, without the deletion of the
\* user's entry (162-165)
CleanupOneKeepsUser(reg, room, s) ==
  LET ar1 == IF room \in DOMAIN reg.ar THEN DictPut(reg.ar, room, reg.ar[room] \ {s}) ELSE reg.ar
      known == s \in DOMAIN reg.s2u
  IN Reg(ar1, reg.uc, IF known THEN DictDel(reg.s2u, s) ELSE reg.s2u)

\* ws_manager.py 159-166 for one bad socket, without `del self.socket_to_user[s]`
CleanupOneKeepsMapping(reg, room, s) ==
  LET ar1 == IF room \in DOMAIN reg.ar THEN DictPut(reg.ar, room, reg.ar[room] \ {s}) ELSE reg.ar
      known == s \in DOMAIN reg.s2u
      username == IF known THEN reg.s2u[s][2] ELSE ""
      match == /\ known
               /\ room \in DOMAIN reg.uc
               /\ username \in DOMAIN reg.uc[room]
               /\ reg.uc[room][username] = s
  IN Reg(ar1,
         IF match THEN DictPut(reg.uc, room, DictDel(reg.uc[room], username)) ELSE reg.uc,
         reg.s2u)

\* ws_manager.py 159-166 for one bad socket
CleanupOne(reg, room, s) ==
  LET ar1 == IF room \in DOMAIN reg.ar THEN DictPut(reg.ar, room, reg.ar[room] \ {s}) ELSE reg.ar
      known == s \in DOMAIN reg.s2u
      username == IF known THEN reg.s2u[s][2] ELSE ""
      match == /\ known
               /\ room \in DOMAIN reg.uc
               /\ username \in DOMAIN reg.uc[room]
               /\ reg.uc[room][username] = s
  IN Reg(ar1,
         IF match THEN DictPut(reg.uc, room, DictDel(reg.uc[room], username)) ELSE reg.uc,
         IF known THEN DictDel(reg.s2u, s) ELSE reg.s2u)

RECURSIVE CleanupBad(_, _, _)
\* ws_manager.py 158-166: the loop over the bad sockets
CleanupBad(reg, room, bad) ==
  IF bad = <<>> THEN reg
  ELSE CleanupBad(CleanupOne(reg, room, Head(bad)), room, Tail(bad))

\* ws_manager.py 140-152 with the loop left at the first failed send
NextIndexStopOnFailure(idx, n, ok) == IF ok THEN idx + 1 ELSE n + 1

\* ws_manager.py 140-152: the loop goes on to the next socket whether the
\* send returned or raised
NextIndex(idx, n, ok) == idx + 1

(* ------------------------------ the store ------------------------------ *)
\* dbManager.py 99-111: does a failed INSERT raise out of execute_query?
\* sqlite3.Error is caught and printed, so it never does.
ExecuteQueryRaises(insertOk) == FALSE

\* messageService.py 21-28: result["success"] of send_message
SendMessageSuccess(insertOk) == ~ExecuteQueryRaises(insertOk)

\* dbManager.py 69-78: the row an INSERT adds (AUTOINCREMENT id, CURRENT_TIMESTAMP)
NewRow(msgs, room, username, content, ts) ==
  [id |-> Len(msgs) + 1, content |-> content, timestamp |-> ts,
   username |-> username, room |-> room]

RECURSIVE InsertByTimestamp(_, _)
\* stable insertion of row m into a list sorted by timestamp
InsertByTimestamp(sorted, m) ==
  IF sorted = <<>> THEN <<m>>
  ELSE IF Head(sorted).timestamp <= m.timestamp
       THEN <<Head(sorted)>> \o InsertByTimestamp(Tail(sorted), m)
       ELSE <<m>> \o sorted

RECURSIVE OrderByTimestamp(_)
\* messageService.py 53/72: ORDER BY m.timestamp ASC; rows with equal
\* timestamps come out in rowid order
OrderByTimestamp(rows) ==
  IF rows = <<>> THEN <<>>
  ELSE InsertByTimestamp(OrderByTimestamp(SubSeq(rows, 1, Len(rows) - 1)), rows[Len(rows)])

\* messageService.py 41-54 with ORDER BY m.timestamp DESC
RoomRowsNewestFirst(msgs, room) ==
  LET InRoom(m) == m.room = room
      rows == OrderByTimestamp(SelectSeq(msgs, InRoom))
  IN [i \in 1..Len(rows) |-> rows[Len(rows) + 1 - i]]

\* messageService.py 41-54: the rows of the room's messages, ordered by
\* timestamp (every author of a row has a users row, so the JOIN drops none)
RoomRows(msgs, room) ==
  LET InRoom(m) == m.room = room
  IN OrderByTimestamp(SelectSeq(msgs, InRoom))

\* messageService.py 56-96 with OFFSET 0: the first `limit` rows
get_room_messages_oldest(msgs, room, limit) ==
  LET rows == RoomRows(msgs, room)
  IN IF limit = 0 THEN rows
     ELSE SubSeq(rows, 1, IF limit < Len(rows) THEN limit ELSE Len(rows))

\* messageService.py 30-98: get_room_messages(room_id, limit)["messages"];
\* limit 0 stands for None (`if limit:` takes both the same way): all the
\* rows.  Otherwise COUNT(*) gives total_count, offset is
\* max(total_count - limit, 0), and the query is cut by LIMIT ? OFFSET ?.
get_room_messages(msgs, room, limit) ==
  LET rows == RoomRows(msgs, room)
      total_count == Len(SelectSeq(msgs, LAMBDA m : m.room = room))
      offset == IF total_count - limit > 0 THEN total_count - limit ELSE 0
      last == IF offset + limit < Len(rows) THEN offset + limit ELSE Len(rows)
  IN IF limit = 0 THEN rows ELSE SubSeq(rows, offset + 1, last)

SetReg(reg) ==
  /\ active_rooms' = reg.ar
  /\ user_connections' = reg.uc
  /\ socket_to_user' = reg.s2u

\* The database file outlives the server process (dbManager.py 26-43 creates
\* the tables only if they do not exist): the server starts on an empty
\* messages table or on one that already holds a message.
StoredAtStart ==
  {<<>>, <<[id |-> 1, content |-> "old", timestamp |-> 0, username |-> "alice", room |-> "r1"]>>}

Init ==
  /\ active_rooms = [r \in {} |-> {}]
  /\ user_connections = [r \in {} |-> {}]
  /\ socket_to_user = [s \in {} |-> <<>>]
  /\ lock = NoTask
  /\ alive = [s \in Sockets |-> TRUE]
  /\ closed = {}
  /\ outbox = [s \in Sockets |-> <<>>]
  /\ messages \in StoredAtStart
  /\ now = 0
  /\ nreq = 0
  /\ inbound = [h \in WsSockets |-> <<>>]
  /\ pc = [t \in Tasks |-> "idle"]
  /\ fr = [t \in Tasks |-> F0]

(* ---------------- calls of ConnectionManager.connect ------------------- *)
\* the frame of a connection's owner once connect has returned
Opened(room, username, result) ==
  [F0 EXCEPT !.room = room, !.user = username, !.result = result]

\* connect(room, user, ws) up to the liveness ping (ws_manager.py 17-35) or,
\* when the user has no connection in the room, to the end (46-51)
ConnectEnter(s) ==
  /\ s \in ApiSockets
  /\ pc[s] = "idle"
  /\ lock = NoTask
  /\ LET room == "r1"
         username == SockUser(s)
         reg1 == InitRoom(CurReg, room)
     IN IF username \in DOMAIN reg1.uc[room]
        THEN /\ SetReg(reg1)
             /\ lock' = s
             /\ pc' = [pc EXCEPT ![s] = "c_probe"]
             /\ fr' = [fr EXCEPT ![s] = [F0 EXCEPT !.room = room, !.user = username,
                                                  !.old = reg1.uc[room][username]]]
        ELSE /\ SetReg(AddConnection(reg1, room, username, s))
             /\ lock' = lock
             /\ pc' = [pc EXCEPT ![s] = "open"]
             /\ fr' = [fr EXCEPT ![s] = Opened(room, username, "ok")]
  /\ UNCHANGED <<alive, closed, outbox, messages, now, nreq, inbound>>

\* ws_manager.py 20 with the lock taken by acquire() and released only at
\* the end of the block: a ping that raises leaves it held
LockAfterProbeHeldOnRaise(s, sendOk) == IF sendOk THEN NoTask ELSE s

\* ws_manager.py 20: `async with self.lock` releases the lock when the block
\* is left, by its end or by an exception
LockAfterProbe(s, sendOk) == NoTask

\* connect from the return of the ping to its own return (ws_manager.py 35-51)
ConnectProbe(s) ==
  /\ pc[s] = "c_probe"
  /\ lock = s
  /\ LET f == fr[s]
         ok == SendOk(f.old)
     IN /\ outbox' = IF ok THEN [outbox EXCEPT ![f.old] = Append(@, Event("ping", "", NoMsg, s))]
                     ELSE outbox
        /\ IF ProbeRefuses(ok)
           THEN /\ UNCHANGED registry
                /\ fr' = [fr EXCEPT ![s] = Opened(f.room, f.user, "refused")]
           ELSE /\ SetReg(AddConnection(Evict(CurReg, f.room, f.user), f.room, f.user, s))
                /\ fr' = [fr EXCEPT ![s] = Opened(f.room, f.user, "ok")]
  /\ lock' = LockAfterProbe(s, SendOk(fr[s].old))
  /\ pc' = [pc EXCEPT ![s] = "open"]
  /\ UNCHANGED <<alive, closed, messages, now, nreq, inbound>>

\* disconnect(room, ws) called for a connection by its owner, with the
\* connection's own room (ws_manager.py 53-76); the frame's `left` records
\* that the owner has run its cleanup
Disconnect(s) ==
  /\ s \in ApiSockets
  /\ pc[s] = "open"
  /\ lock = NoTask
  /\ SetReg(DisconnectReg(CurReg, fr[s].room, s))
  /\ fr' = [fr EXCEPT ![s].left = TRUE]
  /\ UNCHANGED <<lock, alive, closed, outbox, messages, now, nreq, pc, inbound>>

\* the peer of a socket goes away: later sends to it raise
TransportDies(s) ==
  /\ alive[s]
  /\ alive' = [alive EXCEPT ![s] = FALSE]
  /\ UNCHANGED <<registry, lock, closed, outbox, messages, now, nreq, pc, fr, inbound>>

(* broadcast(room, data, exclude_socket, exclude_user): the frame holds the
   two exclusions, 0 and "" for None; every caller in backend.py passes none *)
\* the value a caller's frame takes when its broadcast call returns
AfterBroadcast(t, f) == IF t \in HttpTasks THEN [f EXCEPT !.result = "200"] ELSE f

\* ws_manager.py 121-137 run with the lock free: snapshot, filter, and on to
\* the first send (or to the end when nobody is in the room)
StartBroadcast(t, f, reg) ==
  LET socks == Snapshot(reg, f.room, f.exclude_socket, f.exclude_user)
      f1 == [f EXCEPT !.socks = socks, !.idx = 1, !.bad = <<>>]
  IN IF socks = <<>>
     THEN /\ pc' = [pc EXCEPT ![t] = "done"]
          /\ fr' = [fr EXCEPT ![t] = AfterBroadcast(t, f1)]
     ELSE /\ pc' = [pc EXCEPT ![t] = "b_send"]
          /\ fr' = [fr EXCEPT ![t] = f1]

\* the frame of a broadcast at its call: atcall records the sockets the room
\* holds at that moment
AtCall(f, reg) ==
  [f EXCEPT !.atcall = IF f.room \in DOMAIN reg.ar THEN reg.ar[f.room] ELSE {}]

\* the call of broadcast: it runs on when the lock is free and otherwise
\* waits for it
CallBroadcast(t, f, reg) ==
  IF lock = NoTask
  THEN StartBroadcast(t, AtCall(f, reg), reg)
  ELSE /\ pc' = [pc EXCEPT ![t] = "b_lock"]
       /\ fr' = [fr EXCEPT ![t] = AtCall(f, reg)]

\* broadcast gets the lock it waited for (ws_manager.py 121-137)
BroadcastLock(t) ==
  /\ pc[t] = "b_lock"
  /\ lock = NoTask
  /\ StartBroadcast(t, fr[t], CurReg)
  /\ UNCHANGED <<registry, lock, alive, closed, outbox, messages, now, nreq, inbound>>

\* one iteration of the send loop (ws_manager.py 140-152) and, after the
\* last one, the cleanup of the bad sockets when the lock is free (154-166)
BroadcastSend(t) ==
  /\ pc[t] = "b_send"
  /\ LET f == fr[t]
         s == f.socks[f.idx]
         ok == SendOk(s)
         bad1 == IF ok THEN f.bad ELSE Append(f.bad, s)
         idx1 == NextIndex(f.idx, Len(f.socks), ok)
         f1 == [f EXCEPT !.idx = idx1, !.bad = bad1]
     IN /\ outbox' = IF ok THEN [outbox EXCEPT ![s] = Append(@, f.ev)] ELSE outbox
        /\ IF idx1 <= Len(f.socks)
           THEN /\ pc' = pc
                /\ fr' = [fr EXCEPT ![t] = f1]
                /\ UNCHANGED registry
           ELSE IF bad1 = <<>>
           THEN /\ pc' = [pc EXCEPT ![t] = "done"]
                /\ fr' = [fr EXCEPT ![t] = AfterBroadcast(t, f1)]
                /\ UNCHANGED registry
           ELSE IF lock = NoTask
           THEN /\ pc' = [pc EXCEPT ![t] = "done"]
                /\ fr' = [fr EXCEPT ![t] = AfterBroadcast(t, f1)]
                /\ SetReg(CleanupBad(CurReg, f.room, bad1))
           ELSE /\ pc' = [pc EXCEPT ![t] = "b_clean"]
                /\ fr' = [fr EXCEPT ![t] = f1]
                /\ UNCHANGED registry
  /\ UNCHANGED <<lock, alive, closed, messages, now, nreq, inbound>>

\* the cleanup of the bad sockets once the lock it waited for is free
\* (ws_manager.py 155-166)
BroadcastCleanup(t) ==
  /\ pc[t] = "b_clean"
  /\ lock = NoTask
  /\ SetReg(CleanupBad(CurReg, fr[t].room, fr[t].bad))
  /\ pc' = [pc EXCEPT ![t] = "done"]
  /\ fr' = [fr EXCEPT ![t] = AfterBroadcast(t, fr[t])]
  /\ UNCHANGED <<lock, alive, closed, outbox, messages, now, nreq, inbound>>

(* ------------------------- POST /send_message -------------------------- *)
\* backend.py 216-237, up to the first suspension inside broadcast
HttpSendMessage(t, user, room, content, insertOk) ==
  /\ t \in HttpTasks
  /\ pc[t] = "idle"
  /\ nreq < MaxRequests
  /\ nreq' = nreq + 1
  /\ LET src == [user |-> user, content |-> content,
                 ins |-> IF insertOk THEN "ok" ELSE "failed"]
         f == [F0 EXCEPT !.room = room, !.user = user, !.content = content, !.ins = src.ins]
     IN IF room \notin StoreRooms
        THEN /\ pc' = [pc EXCEPT ![t] = "done"]
             /\ fr' = [fr EXCEPT ![t] = [f EXCEPT !.ins = "none", !.result = "404"]]
             /\ UNCHANGED messages
        ELSE LET msgs1 == IF insertOk
                          THEN Append(messages, NewRow(messages, room, user, content, now))
                          ELSE messages
                 latest == get_room_messages(msgs1, room, 1)
             IN /\ messages' = msgs1
                /\ IF ~SendMessageSuccess(insertOk)
                   THEN /\ pc' = [pc EXCEPT ![t] = "done"]
                        /\ fr' = [fr EXCEPT ![t] = [f EXCEPT !.result = "500"]]
                   ELSE IF latest = <<>>
                   THEN /\ pc' = [pc EXCEPT ![t] = "done"]
                        /\ fr' = [fr EXCEPT ![t] = [f EXCEPT !.result = "200"]]
                   ELSE CallBroadcast(t,
                          [f EXCEPT !.ev = [Event("new_message", "", latest[Len(latest)], t)
                                              EXCEPT !.src = src]],
                          CurReg)
  /\ UNCHANGED <<registry, lock, alive, closed, outbox, now, inbound>>

\* the response of the request has been sent
HttpReturn(t) ==
  /\ t \in HttpTasks
  /\ pc[t] = "done"
  /\ pc' = [pc EXCEPT ![t] = "idle"]
  /\ fr' = [fr EXCEPT ![t] = F0]
  /\ UNCHANGED <<registry, lock, alive, closed, outbox, messages, now, nreq, inbound>>

\* the store's clock advances
Tick ==
  /\ now < MaxClock
  /\ now' = now + 1
  /\ UNCHANGED <<registry, lock, alive, closed, outbox, messages, nreq, pc, fr, inbound>>

(* ------------------------- websocket_endpoint -------------------------- *)
\* backend.py 370-373 only: disconnect without the user_left broadcast
WsCleanupNoAnnounce(h, f) ==
  /\ SetReg(DisconnectReg(CurReg, f.room, h))
  /\ pc' = [pc EXCEPT ![h] = "done"]
  /\ fr' = [fr EXCEPT ![h] = f]

\* backend.py 370-381 run with the lock free: disconnect, then the call of
\* broadcast for user_left (disconnect has released the lock, so broadcast
\* takes it without waiting)
WsCleanup(h, f) ==
  LET reg1 == DisconnectReg(CurReg, f.room, h)
  IN /\ SetReg(reg1)
     /\ StartBroadcast(h, AtCall([f EXCEPT !.ev = Event("user_left", f.user, NoMsg, h)], reg1),
                       reg1)

\* backend.py 281: the first message is of type auth, without the test
IsAuthMessageAny(kind) == TRUE

\* backend.py 281: auth_data.get("type") == "auth"
IsAuthMessage(kind) == kind # "nonauth"

\* backend.py 286-287: the message carries a token
HasToken(kind) == kind \in {"badtoken", "valid"}

\* backend.py 137-152 returning the token's subject without verifying it
authenticate_websocket_token_unverified(kind, h) == SockUser(h)

\* backend.py 137-152: the username of the token's user, "" for None
authenticate_websocket_token(kind, h) == IF kind = "valid" THEN SockUser(h) ELSE ""

\* roomService.py 6-9 answering yes for every name
room_exists_always(room) == TRUE

\* roomService.py 6-9
room_exists(room) == room \in StoreRooms

\* backend.py 275-306 and the except/finally clauses 366-373.
\* kind is what the client does first: "disconnect", or a first message
\* "nonauth" (a JSON object of another type, such as send_message),
\* "notoken" (auth without token), "badtoken", "valid".
\* The error notice and the close that follows it touch only this
\* connection's own, unregistered socket and are taken in the same step.
\* With a valid token and an existing room the handler calls
\* manager.connect(room_name, websocket): the call has no `user` argument,
\* so it raises TypeError before connect's body runs; `except Exception`
\* (368) catches it and the finally clause runs with user set.  The frame's
\* result is the outcome of the connect call: "none" when the handler did not
\* get to it, "raised" when it did.
WsReceiveAuth(h, room, kind) ==
  /\ h \in WsSockets
  /\ pc[h] = "idle"
  /\ LET received == kind # "disconnect"
         withToken == received /\ IsAuthMessage(kind) /\ HasToken(kind)
         user == IF withToken THEN authenticate_websocket_token(kind, h) ELSE ""
         called == user # "" /\ room_exists(room)
         f == [F0 EXCEPT !.room = room, !.user = user, !.auth = kind,
                         !.result = IF called THEN "raised" ELSE "none"]
         message == IF ~received THEN ""
                    ELSE IF ~IsAuthMessage(kind) THEN "Authentication required"
                    ELSE IF ~HasToken(kind) THEN "Token required"
                    ELSE IF user = "" THEN "Invalid token"
                    ELSE IF ~room_exists(room) THEN "Room not found"
                    ELSE ""
         sent == message # "" /\ SendOk(h)
     IN /\ outbox' = IF sent THEN [outbox EXCEPT ![h] = Append(@, ErrorEvent(message, h))]
                     ELSE outbox
        /\ closed' = IF sent THEN closed \cup {h} ELSE closed
        /\ IF user = ""
           THEN /\ pc' = [pc EXCEPT ![h] = "done"]
                /\ fr' = [fr EXCEPT ![h] = f]
                /\ UNCHANGED registry
           ELSE IF lock = NoTask
           THEN WsCleanup(h, f)
           ELSE /\ pc' = [pc EXCEPT ![h] = "ws_fin"]
                /\ fr' = [fr EXCEPT ![h] = f]
                /\ UNCHANGED registry
  /\ UNCHANGED <<lock, alive, messages, now, nreq, inbound>>

\* backend.py 370-381 once the lock disconnect waited for is free
WsFinally(h) ==
  /\ pc[h] = "ws_fin"
  /\ lock = NoTask
  /\ WsCleanup(h, fr[h])
  /\ UNCHANGED <<lock, alive, closed, outbox, messages, now, nreq, inbound>>

\* the handler has returned; the server drops the connection (the frame
\* keeps what the connection was: its room, its user, its first message and
\* the outcome of its connect call)
WsReturn(h) ==
  /\ h \in WsSockets
  /\ pc[h] = "done"
  /\ pc' = [pc EXCEPT ![h] = "gone"]
  /\ fr' = [fr EXCEPT ![h] = [F0 EXCEPT !.room = fr[h].room, !.user = fr[h].user,
                                        !.auth = fr[h].auth, !.result = fr[h].result]]
  /\ closed' = closed \cup {h}
  /\ UNCHANGED <<registry, lock, alive, outbox, messages, now, nreq, inbound>>

(* --------------- ConnectionManager.disconnect_user_from_all_rooms ------ *)
\* leave the loop of ws_manager.py 89-97 or go on to its next room
ForceNext(f) ==
  IF f.idx < Len(f.socks)
  THEN /\ pc' = [pc EXCEPT ![ForceTask] = "f_send"]
       /\ fr' = [fr EXCEPT ![ForceTask] = [f EXCEPT !.idx = f.idx + 1]]
       /\ lock' = lock
  ELSE /\ pc' = [pc EXCEPT ![ForceTask] = "idle"]
       /\ fr' = [fr EXCEPT ![ForceTask] = F0]
       /\ lock' = NoTask

\* ws_manager.py 80-91: take the lock, collect the user's sockets
ForceEnter(username) ==
  /\ pc[ForceTask] = "idle"
  /\ lock = NoTask
  /\ LET rooms == SelectSeq(RoomList(DOMAIN user_connections),
                            LAMBDA r : username \in DOMAIN user_connections[r])
         socks == [i \in 1..Len(rooms) |-> user_connections[rooms[i]][username]]
     IN /\ socks # <<>>
        /\ pc' = [pc EXCEPT ![ForceTask] = "f_send"]
        /\ lock' = ForceTask
        /\ fr' = [fr EXCEPT ![ForceTask] = [F0 EXCEPT !.user = username, !.socks = socks, !.idx = 1]]
  /\ UNCHANGED <<registry, alive, closed, outbox, messages, now, nreq, inbound>>

\* ws_manager.py 91-94 and, when the send raises, 96-97
ForceSend ==
  /\ pc[ForceTask] = "f_send"
  /\ LET f == fr[ForceTask]
         ws == f.socks[f.idx]
     IN IF SendOk(ws)
        THEN /\ outbox' = [outbox EXCEPT ![ws] = Append(@, Event("force_disconnect", "", NoMsg, ForceTask))]
             /\ pc' = [pc EXCEPT ![ForceTask] = "f_close"]
             /\ UNCHANGED <<fr, lock>>
        ELSE /\ outbox' = outbox
             /\ ForceNext(f)
  /\ UNCHANGED <<registry, alive, closed, messages, now, nreq, inbound>>

\* ws_manager.py 95
ForceClose ==
  /\ pc[ForceTask] = "f_close"
  /\ LET f == fr[ForceTask]
     IN /\ closed' = closed \cup {f.socks[f.idx]}
        /\ ForceNext(f)
  /\ UNCHANGED <<registry, alive, outbox, messages, now, nreq, inbound>>

(* --------------------------- specifications ---------------------------- *)
\* the registry driven by its callers and by /send_message
Next ==
  \/ \E s \in ApiSockets : ConnectEnter(s)
  \/ \E s \in ApiSockets : ConnectProbe(s)
  \/ \E s \in ApiSockets : Disconnect(s)
  \/ \E s \in ApiSockets : TransportDies(s)
  \/ \E t \in HttpTasks : BroadcastLock(t)
  \/ \E t \in HttpTasks : BroadcastSend(t)
  \/ \E t \in HttpTasks : BroadcastCleanup(t)
  \/ \E t \in HttpTasks, user \in Users, room \in Rooms, content \in Contents, insertOk \in BOOLEAN :
        HttpSendMessage(t, user, room, content, insertOk)
  \/ \E t \in HttpTasks : HttpReturn(t)
  \/ Tick

Spec == Init /\ [][Next]_vars

\* the registry driven by its callers, disconnect_user_from_all_rooms included
NextForce ==
  \/ \E s \in ApiSockets : ConnectEnter(s)
  \/ \E s \in ApiSockets : ConnectProbe(s)
  \/ \E s \in ApiSockets : Disconnect(s)
  \/ \E s \in ApiSockets : TransportDies(s)
  \/ \E username \in Users : ForceEnter(username)
  \/ ForceSend
  \/ ForceClose

SpecForce == Init /\ [][NextForce]_vars

\* connections served by websocket_endpoint next to registered connections
NextWs ==
  \/ \E s \in ApiSockets : ConnectEnter(s)
  \/ \E s \in ApiSockets : ConnectProbe(s)
  \/ \E s \in Sockets : TransportDies(s)
  \/ \E h \in WsSockets, room \in Rooms,
          kind \in {"disconnect", "nonauth", "notoken", "badtoken", "valid"} :
        WsReceiveAuth(h, room, kind)
  \/ \E h \in WsSockets : WsFinally(h)
  \/ \E h \in WsSockets : BroadcastSend(h)
  \/ \E h \in WsSockets : BroadcastCleanup(h)
  \/ \E h \in WsSockets : WsReturn(h)

SpecWs == Init /\ [][NextWs]_vars

\* The event loop runs every task that is ready: a send returns or raises, a
\* task waiting for the lock gets it once it is free, and the holder of the
\* lock goes on to release it.
FairWs ==
  /\ \A h \in WsSockets : WF_vars(WsFinally(h))
  /\ \A h \in WsSockets : WF_vars(BroadcastSend(h))
  /\ \A h \in WsSockets : WF_vars(BroadcastCleanup(h))
  /\ \A s \in ApiSockets : WF_vars(ConnectProbe(s))

SpecWsFair == SpecWs /\ FairWs

(* ------------------------------ properties ----------------------------- *)
\* the new_message events of the outboxes
Delivered == {e \in UNION {Range(outbox[s]) : s \in Sockets} : e.type = "new_message"}

\* the sockets of user u that room r holds
SocketsOf(r, u) == {s \in active_rooms[r] : SockUser(s) = u}

\* C1: in every reachable state each room holds at most one socket of each
\* user, and when it holds one, user_connections[room][user] is that socket.
C1_SingleSession ==
  \A r \in DOMAIN active_rooms : \A u \in Users :
    /\ Cardinality(SocketsOf(r, u)) <= 1
    /\ SocketsOf(r, u) # {} =>
         /\ r \in DOMAIN user_connections
         /\ u \in DOMAIN user_connections[r]
         /\ user_connections[r][u] \in SocketsOf(r, u)

\* two connections of one user have both been through connect, and the room
\* holds one of them
C1_Witness ==
  \E s1 \in ApiSockets, s2 \in ApiSockets :
    /\ s1 # s2
    /\ SockUser(s1) = SockUser(s2)
    /\ pc[s1] = "open" /\ pc[s2] = "open"
    /\ "r1" \in DOMAIN active_rooms
    /\ s2 \in active_rooms["r1"]

\* C2: a connect that finds the user's existing socket and whose ping to it
\* succeeds returns a refusal and leaves the registry as it was.
C2_RejectsWhenAlive ==
  [][\A s \in ApiSockets :
       (pc[s] = "c_probe" /\ pc'[s] = "open" /\ SendOk(fr[s].old)) =>
         (fr'[s].result = "refused" /\ registry' = registry)]_vars

\* C3: a connect whose ping to the user's existing socket fails has, when it
\* returns, removed the old socket from the three structures, closed the old
\* socket's transport, and registered the new socket.
C3_EvictsAndClosesDead ==
  [][\A s \in ApiSockets :
       (pc[s] = "c_probe" /\ pc'[s] = "open" /\ ~SendOk(fr[s].old)) =>
         LET old == fr[s].old
             r == fr[s].room
             u == fr[s].user
         IN /\ old \notin active_rooms'[r]
            /\ old \notin DOMAIN socket_to_user'
            /\ user_connections'[r][u] = s
            /\ s \in active_rooms'[r]
            /\ socket_to_user'[s] = <<r, u>>
            /\ old \in closed']_vars

\* C4: no new_message event is delivered for a request whose INSERT failed.
C4_NoBroadcastWithoutInsert ==
  \A e \in Delivered : e.src.ins = "ok"

\* C5: the sender of a message whose INSERT failed is told of the failure.
C5_FailureReported ==
  \A t \in HttpTasks :
    (pc[t] = "done" /\ fr[t].ins = "failed") => fr[t].result = "500"

\* C6: every delivered new_message event carries a row of the table whose
\* author and content are those of the request it was sent for.
C6_CarriesStoredRecord ==
  \A e \in Delivered :
    /\ e.data \in Range(messages)
    /\ e.data.username = e.src.user
    /\ e.data.content = e.src.content

\* C7: when a broadcast has returned, every socket of its snapshot has the
\* event unless its own send raised, and the request that published is
\* answered 200.
C7_BroadcastCompletes ==
  \A t \in HttpTasks :
    (pc[t] = "done" /\ fr[t].ev.type = "new_message") =>
      /\ \A s \in Range(fr[t].socks) :
           s \in Range(fr[t].bad) \/ fr[t].ev \in Range(outbox[s])
      /\ fr[t].result = "200"

\* a broadcast has returned in which a send raised and a later socket of the
\* snapshot got the event
C7_Witness ==
  \E t \in HttpTasks :
    /\ pc[t] = "done"
    /\ \E i \in 1..Len(fr[t].socks), j \in 1..Len(fr[t].socks) :
         /\ i < j
         /\ fr[t].socks[i] \in Range(fr[t].bad)
         /\ fr[t].socks[j] \notin Range(fr[t].bad)
         /\ fr[t].ev \in Range(outbox[fr[t].socks[j]])

\* C8: the step in which a broadcast returns leaves every socket whose send
\* raised out of active_rooms[room] and socket_to_user, with
\* user_connections[room] not mapping a user to it; every user entry that
\* holds another socket is left as it was.
C8_BadSocketsDeregistered ==
  [][\A t \in Tasks :
       (pc[t] \in {"b_send", "b_clean"} /\ pc'[t] = "done") =>
         LET r == fr'[t].room
             bad == Range(fr'[t].bad)
         IN /\ \A s \in bad :
                 /\ r \in DOMAIN active_rooms' => s \notin active_rooms'[r]
                 /\ s \notin DOMAIN socket_to_user'
                 /\ r \in DOMAIN user_connections' =>
                      \A u \in DOMAIN user_connections'[r] : user_connections'[r][u] # s
            /\ r \in DOMAIN user_connections =>
                 \A u \in DOMAIN user_connections[r] :
                   user_connections[r][u] \notin bad =>
                     /\ r \in DOMAIN user_connections'
                     /\ u \in DOMAIN user_connections'[r]
                     /\ user_connections'[r][u] = user_connections[r][u]
                     /\ user_connections[r][u] \in active_rooms[r] =>
                          user_connections[r][u] \in active_rooms'[r]]_vars

\* a broadcast has returned after a send to a socket raised, and another
\* socket is registered for that socket's user
C8_Witness ==
  \E t \in HttpTasks :
    /\ pc[t] = "done"
    /\ \E s \in Range(fr[t].bad) :
         /\ s \notin DOMAIN socket_to_user
         /\ "r1" \in DOMAIN user_connections
         /\ SockUser(s) \in DOMAIN user_connections["r1"]
         /\ user_connections["r1"][SockUser(s)] # s
         /\ user_connections["r1"][SockUser(s)] \in active_rooms["r1"]

\* C9: a task that is in the middle of a socket send or close does not hold
\* the lock.
C9_NoSocketIoUnderLock ==
  \A t \in Tasks :
    pc[t] \in {"c_probe", "b_send", "f_send", "f_close"} => lock # t

\* C10: a connection that authenticated with a valid token for an existing
\* room, and whose peer stayed reachable, has been sent auth_success and then
\* message_history before anything else by the time its handler ends.
C10_HandshakeOrder ==
  \A h \in WsSockets :
    (pc[h] = "done" /\ fr[h].auth = "valid" /\ fr[h].room \in StoreRooms /\ alive[h]) =>
      /\ Len(outbox[h]) >= 2
      /\ outbox[h][1].type = "auth_success"
      /\ outbox[h][2].type = "message_history"

(* ------------------- properties of websocket_endpoint ------------------ *)
\* socket s appears somewhere in the registry
InRegistry(s) ==
  \/ \E r \in DOMAIN active_rooms : s \in active_rooms[r]
  \/ s \in DOMAIN socket_to_user
  \/ \E r \in DOMAIN user_connections :
       \E u \in DOMAIN user_connections[r] : user_connections[r][u] = s

\* the events that calls made by task t have sent to sockets other than its own
SentToOthers(t) ==
  {e \in UNION {Range(outbox[s]) : s \in Sockets \ {t}} : e.by = t}

\* the room r1 has a member
HasMembers == "r1" \in DOMAIN active_rooms /\ active_rooms["r1"] # {}

C12_AuthFailureTerminal ==
  \A h \in WsSockets :
    fr[h].auth \in {"notoken", "badtoken"} =>
      /\ outbox[h] \in {<<>>,
                        <<ErrorEvent(IF fr[h].auth = "notoken" THEN "Token required"
                                     ELSE "Invalid token", h)>>}
      /\ alive[h] => outbox[h] # <<>>
      /\ outbox[h] # <<>> => h \in closed
      /\ fr[h].user = ""
      /\ pc[h] \in {"done", "gone"}
      /\ ~InRegistry(h)
      /\ SentToOthers(h) = {}

\* a connection whose token did not verify has been answered while the room
\* had members
C12_Witness ==
  \E h \in WsSockets :
    /\ fr[h].auth = "badtoken"
    /\ pc[h] = "done"
    /\ outbox[h] # <<>>
    /\ HasMembers

\* C13: a connection with a valid token for a room that is not in the store
\* gets the "Room not found" error and nothing else, is closed after it, is
\* in no structure of the registry, and no socket has been sent a user_joined
\* or user_left event because of it.
C13_UnknownRoomTerminal ==
  \A h \in WsSockets :
    (fr[h].auth = "valid" /\ fr[h].room \notin StoreRooms) =>
      /\ outbox[h] \in {<<>>, <<ErrorEvent("Room not found", h)>>}
      /\ alive[h] => outbox[h] # <<>>
      /\ outbox[h] # <<>> => h \in closed
      /\ ~InRegistry(h)
      /\ \A e \in SentToOthers(h) : e.type \notin {"user_joined", "user_left"}

\* the handler of a connection that named an unknown room has ended, its
\* finally clause included, while the room r1 had members
C13_Witness ==
  \E h \in WsSockets :
    /\ fr[h].auth = "valid"
    /\ fr[h].room \notin StoreRooms
    /\ pc[h] = "done"
    /\ outbox[h] # <<>>
    /\ HasMembers

\* C14: the step in which the handler takes a valid auth message for an
\* existing room, the user having no session in that room and the lock being
\* free, registers the connection's socket in the room under its user (the
\* auth_success notice is the send that step then waits on).
C14_SuccessfulHandshake ==
  [][\A h \in WsSockets :
       (/\ pc[h] = "idle" /\ pc'[h] # "idle"
        /\ fr'[h].auth = "valid"
        /\ fr'[h].room \in StoreRooms
        /\ lock = NoTask
        /\ ~(/\ fr'[h].room \in DOMAIN user_connections
             /\ SockUser(h) \in DOMAIN user_connections[fr'[h].room])) =>
         /\ fr'[h].room \in DOMAIN active_rooms'
         /\ h \in active_rooms'[fr'[h].room]
         /\ h \in DOMAIN socket_to_user'
         /\ socket_to_user'[h] = <<fr'[h].room, SockUser(h)>>
         /\ pc'[h] \notin {"ws_fin", "b_send", "b_clean", "done"}]_vars

\* the sockets of room r in the registry
Members(r) == IF r \in DOMAIN active_rooms THEN active_rooms[r] ELSE {}

\* a connection that authenticated with a valid token for an existing room:
\* the connections the handler has to clean up after
Session(h) == fr[h].auth = "valid" /\ fr[h].room \in StoreRooms

C16_JoinLeavePairing ==
  \A h \in WsSockets : \A s \in Sockets \ {h} :
    LET left == SelectSeq(outbox[s], LAMBDA e : e.type = "user_left" /\ e.by = h)
    IN /\ Len(left) <= 1
       /\ left # <<>> => fr[h].result = "ok"

(* ------------------- properties of the registry (2) -------------------- *)
\* the sockets of room r in registry value reg
MembersIn(reg, r) == IF r \in DOMAIN reg.ar THEN reg.ar[r] ELSE {}

\* C18: whenever the lock is free, for every connection whose owner may call
\* disconnect: a second disconnect(room, ws) leaves the three structures as
\* the first call left them, and the first call takes exactly ws out of the
\* room's member set.
C18_DisconnectIdempotent ==
  lock = NoTask =>
    \A s \in ApiSockets :
      pc[s] = "open" =>
        LET r == fr[s].room
            once == DisconnectReg(CurReg, r, s)
            twice == DisconnectReg(once, r, s)
        IN /\ twice = once
           /\ MembersIn(once, r) = Members(r) \ {s}
           /\ Cardinality(MembersIn(once, r)) =
                Cardinality(Members(r)) - (IF s \in Members(r) THEN 1 ELSE 0)

\* a connection's owner has called disconnect once (the connection is live,
\* was not replaced, and is out of the registry) and may call it again, while
\* the room still has members
C18_Witness ==
  \E s \in ApiSockets :
    /\ pc[s] = "open"
    /\ fr[s].result = "ok"
    /\ alive[s]
    /\ \A s2 \in ApiSockets \ {s} : SockUser(s2) = SockUser(s) => pc[s2] = "idle"
    /\ ~InRegistry(s)
    /\ lock = NoTask
    /\ HasMembers

\* C19: whenever the lock is free, disconnect(R, ws) for a socket that is in
\* no structure of the registry leaves every registered socket where it is:
\* its membership of active_rooms, its user's entry and its socket_to_user
\* entry.
C19_DisconnectOfUnregistered ==
  lock = NoTask =>
    \A s \in Sockets : \A r \in Rooms :
      ~InRegistry(s) =>
        LET after == DisconnectReg(CurReg, r, s)
        IN /\ \A r2 \in DOMAIN active_rooms : \A x \in active_rooms[r2] :
                r2 \in DOMAIN after.ar /\ x \in after.ar[r2]
           /\ \A r2 \in DOMAIN user_connections : \A u \in DOMAIN user_connections[r2] :
                /\ r2 \in DOMAIN after.uc
                /\ u \in DOMAIN after.uc[r2]
                /\ after.uc[r2][u] = user_connections[r2][u]
           /\ after.s2u = socket_to_user

\* an evicted connection's owner may call disconnect while another socket is
\* registered for the same user
C19_Witness ==
  \E s \in ApiSockets :
    /\ pc[s] = "open"
    /\ ~InRegistry(s)
    /\ lock = NoTask
    /\ "r1" \in DOMAIN user_connections
    /\ SockUser(s) \in DOMAIN user_connections["r1"]
    /\ user_connections["r1"][SockUser(s)] # s
    /\ user_connections["r1"][SockUser(s)] \in Members("r1")

\* C20: whenever the lock is free, for every room a socket is in
\* active_rooms[R] exactly if it is user_connections[R][u] for some u, and
\* socket_to_user[ws] = (R, u) exactly if user_connections[R][u] = ws.
C20_RegistryConsistency ==
  lock = NoTask =>
    \A r \in Rooms \cup DOMAIN active_rooms \cup DOMAIN user_connections :
      LET users == IF r \in DOMAIN user_connections THEN user_connections[r]
                   ELSE [u \in {} |-> 0]
      IN /\ \A s \in Sockets :
              s \in Members(r) <=> (\E u \in DOMAIN users : users[u] = s)
         /\ \A s \in Sockets : \A u \in Users :
              (s \in DOMAIN socket_to_user /\ socket_to_user[s] = <<r, u>>)
                <=> (u \in DOMAIN users /\ users[u] = s)

\* the lock is free after an eviction and a bad-socket cleanup, and the room
\* has members
C20_Witness ==
  /\ lock = NoTask
  /\ HasMembers
  /\ \E s \in ApiSockets :
       /\ pc[s] = "open" /\ alive[s] /\ ~InRegistry(s)
       /\ SockUser(s) \in DOMAIN user_connections["r1"]
  /\ \E t \in HttpTasks : pc[t] = "done" /\ fr[t].bad # <<>>

(* ------------------------- the message history ------------------------- *)
\* backend.py 317: the limit of the history a joining connection is sent
HistoryLimit == 50

\* limits a GET /get_messages request may carry; 0 is the route without limit
Limits == 0..(MaxRows + 1) \cup {HistoryLimit}

\* MessageService.send_message(user_id, room_id, content) called for an
\* existing room (messageService.py 8-28)
send_message(user, room, content, insertOk) ==
  /\ Len(messages) < MaxRows
  /\ messages' = IF insertOk THEN Append(messages, NewRow(messages, room, user, content, now))
                 ELSE messages
  /\ UNCHANGED <<registry, lock, alive, closed, outbox, now, nreq, inbound, pc, fr>>

\* GET /get_messages/{room_name} and /get_messages/{room_name}/{limit}
\* (backend.py 239-262, messageService.py 100-123)
HttpGetMessages(t, room, limit) ==
  /\ t \in HttpTasks
  /\ pc[t] = "idle"
  /\ pc' = [pc EXCEPT ![t] = "done"]
  /\ fr' = [fr EXCEPT ![t] =
              IF room \notin StoreRooms
              THEN [F0 EXCEPT !.room = room, !.limit = limit, !.result = "404"]
              ELSE LET result == get_room_messages(messages, room, limit)
                   IN [F0 EXCEPT !.room = room, !.limit = limit, !.result = "200",
                                 !.history = result, !.count = Len(result)]]
  /\ UNCHANGED <<registry, lock, alive, closed, outbox, messages, now, nreq, inbound>>

\* the message store driven by the callers of MessageService
NextStore ==
  \/ \E user \in Users, room \in StoreRooms, content \in Contents, insertOk \in BOOLEAN :
        send_message(user, room, content, insertOk)
  \/ \E t \in HttpTasks, room \in Rooms, limit \in Limits : HttpGetMessages(t, room, limit)
  \/ \E t \in HttpTasks : HttpReturn(t)
  \/ Tick

SpecStore == Init /\ [][NextStore]_vars

\* the rows of a room in the order in which the store accepted them
Accepted(room) == SelectSeq(messages, LAMBDA m : m.room = room)

\* list p is the beginning of list q
IsPrefix(p, q) == Len(p) <= Len(q) /\ SubSeq(q, 1, Len(p)) = p

MostRecent(room, k) ==
  LET all == Accepted(room)
      n == IF k < Len(all) THEN k ELSE Len(all)
  IN SubSeq(all, Len(all) - n + 1, Len(all))

Payloads ==
  {[type |-> "send_message", message |-> c] : c \in Contents}
    \cup {[type |-> ty, message |-> ""] : ty \in {"ping", "auth", "typing"}}

\* the client of connection h sends payload p; websocket.receive_json()
\* (backend.py 336) would return it.  A client sends on a connection that is
\* open on both sides.
ClientSend(h, p) ==
  /\ h \in WsSockets
  /\ pc[h] \notin {"idle", "gone"}
  /\ fr[h].auth # "disconnect"
  /\ alive[h]
  /\ h \notin closed
  /\ Len(inbound[h]) < MaxInbound
  /\ inbound' = [inbound EXCEPT ![h] = Append(@, p)]
  /\ UNCHANGED <<registry, lock, alive, closed, outbox, messages, now, nreq, pc, fr>>

\* connections served by websocket_endpoint whose clients go on sending
NextLoop ==
  \/ NextWs
  \/ \E h \in WsSockets, p \in Payloads : ClientSend(h, p)

SpecLoop == Init /\ [][NextLoop]_vars

(* ------------------ properties of the receive loop --------------------- *)
\* str.strip() of a message text (backend.py 339)
Strip(content) == IF content \in {"", " "} THEN "" ELSE content

\* the texts of the send_message payloads of connection h that carry a text,
\* in arrival order
TextsSent(h) ==
  LET WithText(p) == p.type = "send_message" /\ Strip(p.message) # ""
      sent == SelectSeq(inbound[h], WithText)
  IN [i \in 1..Len(sent) |-> Strip(sent[i].message)]

\* the texts of the rows that the user of connection h has stored in its room
\* since the server started, in the order of the table
TextsStored(h) ==
  LET Mine(m) == /\ m.username = fr[h].user
                 /\ m.room = fr[h].room
                 /\ \A q \in StoredAtStart : m \notin Range(q)
      rows == SelectSeq(messages, Mine)
  IN [i \in 1..Len(rows) |-> rows[i].content]

\* the texts of the new_message events that socket s was sent on behalf of
\* connection h, in the order in which s got them
TextsDelivered(s, h) ==
  LET FromH(e) == e.type = "new_message" /\ e.by = h
      evs == SelectSeq(outbox[s], FromH)
  IN [i \in 1..Len(evs) |-> evs[i].data.content]

\* the handler of connection h has ended although its client authenticated
\* for an existing room and is still connected: whatever the client sent
\* should have been handled
EndedOnLiveSession(h) == Session(h) /\ alive[h] /\ pc[h] = "gone"

\* C23: the send_message payloads of a session are handled in arrival order:
\* when the handler of a live session has ended, the rows its user stored are
\* the texts it sent, in the order it sent them, and every socket that was
\* sent new_message events for them got them in that order.
C23_PerSessionOrdering ==
  \A h \in WsSockets :
    EndedOnLiveSession(h) =>
      /\ TextsStored(h) = TextsSent(h)
      /\ \A s \in Sockets :
           TextsDelivered(s, h) \in {<<>>, TextsSent(h)}

\* C24: a session whose client has sent nothing but send_message payloads
\* with an empty or whitespace-only text is where it was: nothing has been
\* stored, no event and no error notice has been sent for it, and it is
\* still authenticated, registered and in its receive loop.
C24_BlankIsNoOp ==
  \A h \in WsSockets :
    ( /\ Session(h) /\ alive[h]
      /\ inbound[h] # <<>>
      /\ \A p \in Range(inbound[h]) : p.type = "send_message" /\ Strip(p.message) = "" ) =>
      /\ messages \in StoredAtStart
      /\ \A s \in Sockets : \A e \in Range(outbox[s]) :
           e.by = h => e.type \notin {"new_message", "error"}
      /\ fr[h].user = SockUser(h)
      /\ InRegistry(h)
      /\ pc[h] \notin {"done", "gone"}

\* C25: every send_message payload with a text that a live session sent has
\* come back to the sender's own socket as a new_message event carrying the
\* stored row, by the time its handler has ended.
C25_SenderEcho ==
  \A h \in WsSockets :
    EndedOnLiveSession(h) =>
      /\ TextsDelivered(h, h) = TextsSent(h)
      /\ \A e \in Range(outbox[h]) :
           (e.type = "new_message" /\ e.by = h) => e.data \in Range(messages)

\* the number of elements of list q that satisfy Test
CountOf(q, Test(_)) == Len(SelectSeq(q, Test))

\* C26: every ping payload of a live session has been answered by exactly
\* one pong on the session's own socket and on no other socket, and pings
\* change neither the registry's view of other sockets nor the store.
C26_PingPong ==
  \A h \in WsSockets :
    EndedOnLiveSession(h) =>
      /\ CountOf(outbox[h], LAMBDA e : e.type = "pong")
           = CountOf(inbound[h], LAMBDA p : p.type = "ping")
      /\ \A s \in Sockets \ {h} : \A e \in Range(outbox[s]) : e.type # "pong"
      /\ TextsSent(h) = <<>> => messages \in StoredAtStart

\* C27: a session whose client, once authenticated, has sent nothing but
\* payloads of a type other than send_message and ping (a second auth
\* message included) keeps its user, its room and its registration, has
\* caused nothing to be stored or sent, and is still in its receive loop.
C27_UnknownPayloadIgnored ==
  \A h \in WsSockets :
    ( /\ Session(h) /\ alive[h]
      /\ inbound[h] # <<>>
      /\ \A p \in Range(inbound[h]) : p.type \notin {"send_message", "ping"} ) =>
      /\ fr[h].user = SockUser(h)
      /\ fr[h].room \in StoreRooms
      /\ h \in DOMAIN socket_to_user
      /\ socket_to_user[h] = <<fr[h].room, SockUser(h)>>
      /\ messages \in StoredAtStart
      /\ \A s \in Sockets : \A e \in Range(outbox[s]) :
           e.by = h => e.type \notin {"new_message", "error", "pong"}
      /\ pc[h] \notin {"done", "gone"}

(* ----------------------- removal from the registry --------------------- *)
\* C28: a session that eviction inside connect or the bad-socket cleanup of
\* broadcast takes out of the registry is destroyed: from the step that
\* removes it (its owner's own disconnect aside) its transport is closed or
\* dead, so that no receive loop can go on reading send_message payloads
\* from it.
C28_RemovedIsDestroyed ==
  [][\A s \in ApiSockets :
       (InRegistry(s) /\ ~InRegistry(s)' /\ ~Disconnect(s)) =>
         (~alive'[s] \/ s \in closed')]_vars

(* --------------------------- content validation ------------------------ *)
\* C29: no message whose text is empty or whitespace-only is in the store or
\* carried by a delivered new_message event, whichever path published it.
C29_NoBlankMessage ==
  /\ \A m \in Range(messages) : Strip(m.content) # ""
  /\ \A e \in Delivered : Strip(e.data.content) # ""

(* ------------------------ broadcast with exclusions -------------------- *)
\* a task calls manager.broadcast(room, data, exclude_socket, exclude_user)
\* (ws_manager.py 112-137) with a payload of its own; 0 and "" stand for None
ApiBroadcast(t, room, exclude_socket, exclude_user) ==
  /\ t \in HttpTasks
  /\ pc[t] = "idle"
  /\ nreq < MaxRequests
  /\ nreq' = nreq + 1
  /\ CallBroadcast(t,
       [F0 EXCEPT !.room = room, !.exclude_socket = exclude_socket,
                  !.exclude_user = exclude_user,
                  !.ev = Event("notice", "", [NoMsg EXCEPT !.id = nreq + 1], t)],
       CurReg)
  /\ UNCHANGED <<registry, lock, alive, closed, outbox, messages, now, inbound>>

\* the registry driven by its callers and by callers of broadcast
NextBroadcast ==
  \/ \E s \in ApiSockets : ConnectEnter(s)
  \/ \E s \in ApiSockets : ConnectProbe(s)
  \/ \E s \in ApiSockets : Disconnect(s)
  \/ \E s \in ApiSockets : TransportDies(s)
  \/ \E t \in HttpTasks, room \in Rooms, exclude_socket \in {0} \cup ApiSockets,
          exclude_user \in {""} \cup Users :
        ApiBroadcast(t, room, exclude_socket, exclude_user)
  \/ \E t \in HttpTasks : BroadcastLock(t)
  \/ \E t \in HttpTasks : BroadcastSend(t)
  \/ \E t \in HttpTasks : BroadcastCleanup(t)
  \/ \E t \in HttpTasks : HttpReturn(t)

SpecBroadcast == Init /\ [][NextBroadcast]_vars

\* the sends of the current broadcast of task t to socket s: the copies of
\* its event that s was sent, and the sends to s that raised
Attempts(t, s) ==
  CountOf(outbox[s], LAMBDA e : e = fr[t].ev) + CountOf(fr[t].bad, LAMBDA x : x = s)

\* socket s is excluded from the broadcast of task t
Excluded(t, s) ==
  \/ fr[t].exclude_socket # 0 /\ s = fr[t].exclude_socket
  \/ fr[t].exclude_user # "" /\ SockUser(s) = fr[t].exclude_user

\* C30: broadcast never sends its event to the excluded socket nor to a
\* socket registered under the excluded user; the sockets it sends to are
\* exactly the other sockets of the snapshot of active_rooms[R] taken under
\* the lock, and each of them has exactly one send attempted when the
\* broadcast has returned (and never more than one before).
C30_BroadcastExclusion ==
  /\ [](\A t \in HttpTasks : fr[t].ev.type = "notice" =>
          \A s \in Sockets :
            /\ Excluded(t, s) => Attempts(t, s) = 0
            /\ Attempts(t, s) <= 1
            /\ s \notin Range(fr[t].socks) => Attempts(t, s) = 0
            /\ (pc[t] = "done" /\ s \in Range(fr[t].socks)) => Attempts(t, s) = 1)
  /\ [][\A t \in HttpTasks :
          (pc[t] \in {"idle", "b_lock"} /\ pc'[t] \in {"b_send", "done"}
             /\ fr'[t].ev.type = "notice") =>
            /\ Range(fr'[t].socks) = {s \in Members(fr'[t].room) : ~Excluded(t, s)'}
            /\ Len(fr'[t].socks) = Cardinality(Range(fr'[t].socks))]_vars

\* a broadcast that excluded alice has returned: bob's socket got the event
\* while a socket of alice is in the room, registered since before the call
C30_Witness ==
  \E t \in HttpTasks :
    /\ pc[t] = "done"
    /\ fr[t].ev.type = "notice"
    /\ fr[t].exclude_user = "alice"
    /\ \E s \in Range(fr[t].socks) : fr[t].ev \in Range(outbox[s])
    /\ \E s \in Members(fr[t].room) :
         /\ SockUser(s) = "alice"
         /\ \A s2 \in ApiSockets \ {s} : SockUser(s2) = "alice" => pc[s2] = "idle"

(* --------------------------- registry queries -------------------------- *)
\* ws_manager.py 101-105: get_room_users(room_name), as a set (the keys of a
\* dict hold no name twice)
get_room_users(reg, room) ==
  IF room \in DOMAIN reg.uc THEN DOMAIN reg.uc[room] ELSE {}

\* ws_manager.py 107-110: is_user_in_room(room_name, username)
is_user_in_room(reg, room, username) ==
  room \in DOMAIN reg.uc /\ username \in DOMAIN reg.uc[room]

\* C31: at every point where the event loop may run a caller (the two
\* queries take no lock and do not await), get_room_users(R) is exactly the
\* set of users that have a socket in active_rooms[R] - empty for a room
\* without members - and is_user_in_room(R, u) says whether u is in it.
C31_QueriesReflectRegistry ==
  \A r \in Rooms :
    /\ get_room_users(CurReg, r) = {SockUser(s) : s \in Members(r)}
    /\ \A u \in Users :
         is_user_in_room(CurReg, r, u) <=> (\E s \in Members(r) : SockUser(s) = u)

\* a broadcast has cleaned up a bad socket whose user has no other socket:
\* the user is no longer listed, while another user of the room still is
C31_Witness ==
  \E t \in HttpTasks :
    /\ pc[t] = "done"
    /\ \E s \in Range(fr[t].bad) :
         /\ SockUser(s) \notin get_room_users(CurReg, fr[t].room)
         /\ get_room_users(CurReg, fr[t].room) # {}

(* ------------------------- user_left and rejoin ------------------------ *)
\* C32: in the step that delivers a user_left event naming user U to a
\* socket of room R, U has no registered session in R, and the socket that
\* gets the event is not a session of U.
C32_UserLeftOnlyWhenGone ==
  [][\A s \in Sockets :
       (Len(outbox'[s]) = Len(outbox[s]) + 1
          /\ outbox'[s][Len(outbox'[s])].type = "user_left") =>
         LET e == outbox'[s][Len(outbox'[s])]
         IN /\ ~is_user_in_room(CurReg, fr[e.by].room, e.username)
            /\ SockUser(s) # e.username]_vars

(* ----------------------- joining while others post --------------------- *)
\* connections served by websocket_endpoint while /send_message requests
\* store and publish messages; the peers of the registered sockets stay up,
\* so no send of a broadcast raises
NextJoin ==
  \/ \E s \in ApiSockets : ConnectEnter(s)
  \/ \E s \in ApiSockets : ConnectProbe(s)
  \/ \E h \in WsSockets : TransportDies(h)
  \/ \E h \in WsSockets, room \in Rooms,
          kind \in {"disconnect", "nonauth", "notoken", "badtoken", "valid"} :
        WsReceiveAuth(h, room, kind)
  \/ \E h \in WsSockets : WsFinally(h)
  \/ \E h \in WsSockets : BroadcastSend(h)
  \/ \E h \in WsSockets : WsReturn(h)
  \/ \E t \in HttpTasks : BroadcastLock(t)
  \/ \E t \in HttpTasks : BroadcastSend(t)
  \/ \E t \in HttpTasks, user \in Users, room \in Rooms, content \in Contents, insertOk \in BOOLEAN :
        HttpSendMessage(t, user, room, content, insertOk)
  \/ \E t \in HttpTasks : HttpReturn(t)

SpecJoin == Init /\ [][NextJoin]_vars

\* row m has reached socket s, inside a message_history payload or as the
\* row of a new_message event
ReachedSocket(s, m) ==
  \E e \in Range(outbox[s]) :
    \/ e.type = "message_history" /\ m \in Range(e.history)
    \/ e.type = "new_message" /\ e.data = m

\* C33: when the handler of a connection that authenticated for an existing
\* room, and whose peer is still connected, gets to its end, every message
\* stored in the room by then has reached the connection: in its
\* message_history payload or as a new_message event.
C33_NoGap ==
  [][\A h \in WsSockets :
       (pc[h] # "done" /\ pc'[h] = "done" /\ Session(h)' /\ alive'[h]) =>
         \A m \in Range(messages') :
           m.room = fr'[h].room => ReachedSocket(h, m)']_vars

(* ------------------- one broadcast, seen by each socket ---------------- *)
\* the copies of the event of task t's current broadcast that socket s got
Copies(t, s) == CountOf(outbox[s], LAMBDA e : e = fr[t].ev)

\* C34: in the step in which a broadcast returns, every socket that was in
\* the room when broadcast was called, is still in it and is not excluded has
\* got the event exactly once; at no time has a socket got it twice, and a
\* socket that is not in the snapshot - one that registered after it was
\* taken - has not got it.  (A socket is registered at most once, so one that
\* is in the room at the call and at the return was in it throughout.)
C34_ExactlyOncePerCall ==
  /\ [][\A t \in HttpTasks :
          (pc[t] # "done" /\ pc'[t] = "done" /\ fr'[t].ev.type = "notice") =>
            \A s \in fr'[t].atcall :
              (s \in MembersIn(Reg(active_rooms', user_connections', socket_to_user'),
                               fr'[t].room)
                 /\ ~Excluded(t, s)') => Copies(t, s)' = 1]_vars
  /\ [][\A s \in ApiSockets : \A r \in Rooms :
          (s \notin Members(r) /\ s \in Members(r)') => pc[s] \in {"idle", "c_probe"}]_vars
  /\ [](\A t \in HttpTasks : fr[t].ev.type = "notice" =>
          \A s \in Sockets :
            /\ Copies(t, s) <= 1
            /\ (pc[t] \in {"b_send", "b_clean", "done"} /\ s \notin Range(fr[t].socks))
                 => Copies(t, s) = 0)

\* a broadcast has returned: a socket that was in the room throughout got
\* the event, a socket of the snapshot whose send raised is gone, and a
\* socket that registered after the snapshot is in the room without the event
C34_Witness ==
  \E t \in HttpTasks :
    /\ pc[t] = "done" /\ fr[t].ev.type = "notice"
    /\ fr[t].exclude_socket = 0 /\ fr[t].exclude_user = ""
    /\ \E s1 \in fr[t].atcall \cap Members(fr[t].room) : Copies(t, s1) = 1
    /\ fr[t].bad # <<>>
    /\ \E s2 \in Members(fr[t].room) \ Range(fr[t].socks) : Copies(t, s2) = 0

(* ------------------------------ quiescence ----------------------------- *)
\* the owner of connection s is done with it: it has called connect and then
\* run its cleanup (the handler of a websocket connection has ended)
Finished(s) ==
  IF s \in ApiSockets THEN pc[s] = "open" /\ fr[s].left
  ELSE pc[s] \in {"done", "gone"}

\* C35: a connection whose owner has run its cleanup is in none of the three
\* structures, whatever happened to it before (eviction, bad-socket cleanup,
\* a dead transport); so once all the connections that were opened are
\* finished and no call is under way, no socket remains in active_rooms,
\* user_connections or socket_to_user.
C35_Quiescence ==
  /\ \A s \in Sockets : Finished(s) => ~InRegistry(s)
  /\ (\A s \in Sockets : pc[s] = "idle" \/ Finished(s)) =>
       /\ \A r \in DOMAIN active_rooms : active_rooms[r] = {}
       /\ \A r \in DOMAIN user_connections : DOMAIN user_connections[r] = {}
       /\ DOMAIN socket_to_user = {}

\* every connection a client opened is finished, after a bad-socket cleanup
\* by a broadcast and the eviction of one of alice's two connections
C35_Witness ==
  /\ \A s \in ApiSockets : Finished(s)
  /\ \E t \in HttpTasks : pc[t] = "done" /\ fr[t].bad # <<>>
  /\ \E s \in ApiSockets : Event("ping", "", NoMsg, s) \in UNION {Range(outbox[x]) : x \in ApiSockets}

(* ------------------------------- the lock ------------------------------ *)
\* The event loop runs every task that is ready: a send returns or raises,
\* and a task waiting for the lock gets it once it is free.
FairBroadcast ==
  /\ \A s \in ApiSockets : WF_vars(ConnectProbe(s))
  /\ \A t \in HttpTasks : WF_vars(BroadcastLock(t))
  /\ \A t \in HttpTasks : WF_vars(BroadcastSend(t))
  /\ \A t \in HttpTasks : WF_vars(BroadcastCleanup(t))

\* connect, disconnect and broadcast (without exclusions) contending for
\* the lock
NextLock ==
  \/ \E s \in ApiSockets : ConnectEnter(s)
  \/ \E s \in ApiSockets : ConnectProbe(s)
  \/ \E s \in ApiSockets : Disconnect(s)
  \/ \E s \in ApiSockets : TransportDies(s)
  \/ \E t \in HttpTasks : ApiBroadcast(t, "r1", 0, "")
  \/ \E t \in HttpTasks : BroadcastLock(t)
  \/ \E t \in HttpTasks : BroadcastSend(t)
  \/ \E t \in HttpTasks : BroadcastCleanup(t)
  \/ \E t \in HttpTasks : HttpReturn(t)

SpecLockFair == Init /\ [][NextLock]_vars /\ FairBroadcast

\* C36: the lock is held only by a connect that is inside its `async with`
\* block, never by a task that waits for it or has left connect, disconnect
\* or broadcast; whoever holds it releases it; and every connect and every
\* broadcast under way completes.
C36_LockReleased ==
  /\ [](\A t \in Tasks : lock = t => pc[t] = "c_probe")
  /\ [](\A s \in ApiSockets : pc[s] = "c_probe" => lock = s)
  /\ \A t \in Tasks : (lock = t) ~> (lock = NoTask)
  /\ \A s \in ApiSockets : (pc[s] = "c_probe") ~> (pc[s] = "open")
  /\ \A t \in HttpTasks : (pc[t] \in {"b_lock", "b_send", "b_clean"}) ~> (pc[t] = "done")

\* a broadcast in which a send raised waits for the lock to clean up, while a
\* connect holds the lock across a ping that is going to raise
C36_Witness ==
  \E t \in HttpTasks, s \in ApiSockets :
    /\ pc[t] = "b_clean"
    /\ pc[s] = "c_probe" /\ lock = s
    /\ ~SendOk(fr[s].old)
====
